---- MODULE Spec2Model ----
(***************************************************************************)
(* The circuit-artifact installer of crates/sdk/src/install.rs.            *)
(*                                                                         *)
(* A path is the string held by a PathBuf: a sequence of characters in     *)
(* which "/" is the separator.  Two PathBufs are equal when their          *)
(* component sequences are equal (std::path compares components).  The     *)
(* filesystem maps the component sequence of every existing directory to   *)
(* what the directory holds.  A chunk of the response body is modelled by  *)
(* its length in bytes and a file by the number of bytes written to it.    *)
(***************************************************************************)
EXTENDS Integers, Sequences, FiniteSets, TLC

(***************************************************************************)
(* Bounds of the model.                                                    *)
(***************************************************************************)
MaxCalls == 2          \* calls of try_install_circuit_artifacts a lone process makes
MaxChunks == 2         \* chunks one response body yields
MaxChunkLen == 2       \* bytes in one chunk
MaxTotal == 2          \* largest advertised content length
MaxVersionLen == 2     \* characters in a version string given to the resolver
ConcChunks == 1        \* chunks of a body served to concurrent processes
ConcBytes == 1         \* bytes in such a chunk, and in the advertised length

(***************************************************************************)
(* Paths.                                                                  *)
(***************************************************************************)
Sep == "/"
Dot == "."

\* dirs::home_dir(): the home directory of the environment.
HomeDir == <<Sep, "h">>

\* Version strings of well-formed releases, one path component each.
Versions == {<<"v">>, <<"w">>}

\* The characters a version string handed to the resolver is made of.
VersionChars == {"v", Sep, Dot}

AllVersions == UNION {[1..n -> VersionChars] : n \in 0..MaxVersionLen}

\* Path::is_absolute (Unix): the path starts with the separator.
IsAbsolute(s) == Len(s) > 0 /\ s[1] = Sep

\* Path::join / PathBuf::push (Unix): an absolute argument replaces the
\* path; otherwise a separator is added unless the path already ends in one.
Join(base, s) ==
    IF IsAbsolute(s) THEN s
    ELSE IF Len(base) > 0 /\ base[Len(base)] # Sep THEN base \o <<Sep>> \o s
    ELSE base \o s

\* The pieces of s between separators, empty pieces included.
RECURSIVE Split(_)
Split(s) ==
    IF s = <<>> THEN << <<>> >>
    ELSE LET rest == Split(Tail(s))
         IN  IF Head(s) = Sep THEN << <<>> >> \o rest
             ELSE << <<Head(s)>> \o Head(rest) >> \o Tail(rest)

\* Path::components (Unix): the root, then every piece that is neither
\* empty nor ".", except that a leading "." of a relative path is kept.
Components(s) ==
    LET pieces == Split(s)
        keep(i) == /\ pieces[i] # <<>>
                   /\ (pieces[i] = <<Dot>> => (i = 1 /\ ~IsAbsolute(s)))
        kept == SelectSeq([i \in 1..Len(pieces) |-> <<i, pieces[i]>>],
                          LAMBDA e : keep(e[1]))
        normal == [i \in 1..Len(kept) |-> kept[i][2]]
    IN  IF IsAbsolute(s) THEN << <<Sep>> >> \o normal ELSE normal

\* PartialEq for PathBuf: equality of the component sequences.
PathEq(a, b) == Components(a) = Components(b)

\* The resolver with the version left out of the path.
circuit_artifacts_dir_unversioned(v) ==
    Join(Join(HomeDir, <<".sp1">>), <<"circuits">>)

\* fn circuit_artifacts_dir, for a build whose SP1_CIRCUIT_VERSION is v.
circuit_artifacts_dir(v) ==
    Join(Join(Join(HomeDir, <<".sp1">>), <<"circuits">>), v)

\* fn install_circuit_artifacts_dir, for a build whose version is v.
install_circuit_artifacts_dir(v) ==
    Join(Join(Join(HomeDir, <<".sp1">>), <<"circuits">>), v)


(***************************************************************************)
(* State.                                                                  *)
(***************************************************************************)
VARIABLES
    procs,        \* the processes that call the installer
    network,      \* the build has the "network" feature
    version,      \* SP1_CIRCUIT_VERSION of each process's build
    fs,           \* existing directories -> what has been extracted into them
    pc,           \* where each process is in its call
    calls_left,   \* calls of try_install_circuit_artifacts still to be made
    build_dir,    \* the local build_dir of the call
    cur,          \* what the current (or last ended) call has done
    prev,         \* the same for the call before it
    file,         \* bytes in artifacts_tar_gz_file, NoFile when it does not exist
    res,          \* download_file: what send() gave
    total_size,   \* download_file: the advertised content length
    downloaded,   \* download_file: the running total
    pb,           \* positions the progress bar has been moved to
    read,         \* lengths of the chunks the stream has yielded
    wrote,        \* lengths of the chunks write_all has written in full
    result,       \* what download_file returned
    tar,          \* the child process running tar
    rv,           \* resolver check: the two version strings
    rp            \* resolver check: the paths resolved for them

vars == <<procs, network, version, fs, pc, calls_left, build_dir, cur, prev, file, res,
          total_size, downloaded, pb, read, wrote, result, tar, rv, rp>>

installVars == <<procs, network, version, fs, pc, calls_left, build_dir, cur, prev, file,
                 res, total_size, downloaded, pb, read, wrote, result, tar>>

NoFile == -1
NoLength == -1
NoPath == <<>>

\* HTTP statuses a server answers with: one success, one failure.
Statuses == {200, 404}

\* StatusCode::is_success
IsSuccess(st) == st \in 200..299

\* What client.get(url).send().await gave: nothing yet, an error, or a
\* response with its status and its content length (NoLength for None).
NoResponse == [sent |-> "none", status |-> 0, content_length |-> NoLength]
SendError == [sent |-> "error", status |-> 0, content_length |-> NoLength]
Response(st, len) == [sent |-> "ok", status |-> st, content_length |-> len]

\* What a call has done so far, at its start.
NewCall(existed) ==
    [existed |-> existed, created |-> FALSE, reqs |-> 0, temps |-> 0,
     spawned |-> FALSE, exit |-> -1, notices |-> {}, outcome |-> "running",
     ret |-> NoPath]

NoCall == [NewCall(FALSE) EXCEPT !.outcome = "none"]

Min(a, b) == IF a <= b THEN a ELSE b

RECURSIVE Sum(_)
Sum(s) == IF s = <<>> THEN 0 ELSE Head(s) + Sum(Tail(s))

\* An existence check that also wants a complete extraction.
Exists_complete(f, path) ==
    Components(path) \in DOMAIN f /\ f[Components(path)] = "full"

\* An existence check that never finds the directory.
Exists_never(f, path) == FALSE

\* Path::exists: the directory the path names is in the filesystem.
Exists(f, path) == Components(path) \in DOMAIN f

\* The directory named by the first k components of path.
Prefix(path, k) == SubSeq(Components(path), 1, k)

\* std::fs::create_dir_all stopped after the first k components: every
\* missing directory among them now exists and holds nothing.
CreateDirUpTo(f, path, k) ==
    LET new == {Prefix(path, i) : i \in 1..k} \ DOMAIN f
    IN  [d \in DOMAIN f \cup new |-> IF d \in DOMAIN f THEN f[d] ELSE "empty"]

\* std::fs::create_dir_all, successful.
create_dir_all(f, path) == CreateDirUpTo(f, path, Len(Components(path)))

(***************************************************************************)
(* Initial state.  The home directory exists; the install directory of a   *)
(* version may already be there from an earlier run.                       *)
(***************************************************************************)
HomeFs == create_dir_all(<<>> , HomeDir)

Installed(vs) ==
    LET dirs == {Components(circuit_artifacts_dir(v)) : v \in vs}
        above == UNION {{SubSeq(d, 1, i) : i \in 1..Len(d)} : d \in dirs}
    IN  [d \in DOMAIN HomeFs \cup above |-> IF d \in dirs THEN "full" ELSE "empty"]

InitInstall(ps, n) ==
    /\ procs = ps
    /\ network \in BOOLEAN
    /\ version \in [ps -> Versions]
    /\ \E vs \in SUBSET Versions : fs = Installed(vs)
    /\ pc = [p \in ps |-> "idle"]
    /\ calls_left = [p \in ps |-> n]
    /\ build_dir = [p \in ps |-> NoPath]
    /\ cur = [p \in ps |-> NoCall]
    /\ prev = [p \in ps |-> NoCall]
    /\ file = [p \in ps |-> NoFile]
    /\ res = [p \in ps |-> NoResponse]
    /\ total_size = [p \in ps |-> 0]
    /\ downloaded = [p \in ps |-> 0]
    /\ pb = [p \in ps |-> <<>>]
    /\ read = [p \in ps |-> <<>>]
    /\ wrote = [p \in ps |-> <<>>]
    /\ result = [p \in ps |-> "none"]
    /\ tar = [p \in ps |-> "none"]

\* One process calling the installer MaxCalls times in sequence.
Init ==
    /\ InitInstall({1}, MaxCalls)
    /\ rv = <<>>
    /\ rp = <<>>


(***************************************************************************)
(* The end of a call.  artifacts_tar_gz_file is a NamedTempFile: leaving   *)
(* its scope, by return or by a panic unwinding, removes the file.         *)
(***************************************************************************)
EndCall(p, outcome, ret, notice) ==
    /\ cur' = [cur EXCEPT ![p].outcome = outcome, ![p].ret = ret,
                          ![p].notices = @ \cup notice]
    /\ pc' = [pc EXCEPT ![p] = "idle"]
    /\ file' = [file EXCEPT ![p] = NoFile]
    /\ res' = [res EXCEPT ![p] = NoResponse]
    /\ total_size' = [total_size EXCEPT ![p] = 0]
    /\ downloaded' = [downloaded EXCEPT ![p] = 0]
    /\ pb' = [pb EXCEPT ![p] = <<>>]
    /\ read' = [read EXCEPT ![p] = <<>>]
    /\ wrote' = [wrote EXCEPT ![p] = <<>>]
    /\ result' = [result EXCEPT ![p] = "none"]
    /\ tar' = [tar EXCEPT ![p] = "none"]

\* A failure that ends the process at once, its temporary file left behind.
Panic_leak(p, err) ==
    /\ cur' = [cur EXCEPT ![p].outcome = err]
    /\ pc' = [pc EXCEPT ![p] = "idle"]
    /\ res' = [res EXCEPT ![p] = NoResponse]
    /\ total_size' = [total_size EXCEPT ![p] = 0]
    /\ downloaded' = [downloaded EXCEPT ![p] = 0]
    /\ pb' = [pb EXCEPT ![p] = <<>>]
    /\ read' = [read EXCEPT ![p] = <<>>]
    /\ wrote' = [wrote EXCEPT ![p] = <<>>]
    /\ result' = [result EXCEPT ![p] = "none"]
    /\ tar' = [tar EXCEPT ![p] = "none"]
    /\ UNCHANGED file

\* A failed expect/unwrap: the call ends by a panic carrying the error.
Panic(p, err) == EndCall(p, err, NoPath, {})

\* The entry point with the installation compiled in whatever the feature.
TryInstall_any_build(p) ==
    /\ pc[p] = "idle"
    /\ calls_left[p] > 0
    /\ LET dir == circuit_artifacts_dir(version[p])
           there == Components(dir) \in DOMAIN fs
       IN  /\ build_dir' = [build_dir EXCEPT ![p] = dir]
           /\ calls_left' = [calls_left EXCEPT ![p] = @ - 1]
           /\ prev' = [prev EXCEPT ![p] = cur[p]]
           /\ IF Exists(fs, dir)
              THEN /\ cur' = [cur EXCEPT ![p] =
                         [NewCall(there) EXCEPT !.outcome = "returned",
                                               !.ret = dir,
                                               !.notices = {"exists"}]]
                   /\ pc' = pc
              ELSE /\ cur' = [cur EXCEPT ![p] =
                         [NewCall(there) EXCEPT !.notices = {"downloading"}]]
                   /\ pc' = [pc EXCEPT ![p] = "create_dir"]
    /\ UNCHANGED <<procs, network, version, fs, file, res, total_size, downloaded,
                   pb, read, wrote, result, tar, rv, rp>>

(***************************************************************************)
(* fn try_install_circuit_artifacts                                        *)
(***************************************************************************)
TryInstall(p) ==
    /\ pc[p] = "idle"
    /\ calls_left[p] > 0
    /\ LET dir == circuit_artifacts_dir(version[p])
           there == Components(dir) \in DOMAIN fs
       IN  /\ build_dir' = [build_dir EXCEPT ![p] = dir]
           /\ calls_left' = [calls_left EXCEPT ![p] = @ - 1]
           /\ prev' = [prev EXCEPT ![p] = cur[p]]
           /\ IF Exists(fs, dir)
              THEN /\ cur' = [cur EXCEPT ![p] =
                         [NewCall(there) EXCEPT !.outcome = "returned",
                                               !.ret = dir,
                                               !.notices = {"exists"}]]
                   /\ pc' = pc
              ELSE IF network
              THEN /\ cur' = [cur EXCEPT ![p] =
                         [NewCall(there) EXCEPT !.notices = {"downloading"}]]
                   /\ pc' = [pc EXCEPT ![p] = "create_dir"]
              ELSE /\ cur' = [cur EXCEPT ![p] =
                         [NewCall(there) EXCEPT !.outcome = "returned",
                                                !.ret = dir]]
                   /\ pc' = pc
    /\ UNCHANGED <<procs, network, version, fs, file, res, total_size, downloaded,
                   pb, read, wrote, result, tar, rv, rp>>

(***************************************************************************)
(* fn install_circuit_artifacts                                            *)
(***************************************************************************)
\* Directory creation whose failure is not looked at.
CreateDir_unchecked(p) ==
    /\ pc[p] = "create_dir"
    /\ \/ /\ fs' = create_dir_all(fs, build_dir[p])
          /\ cur' = [cur EXCEPT ![p].created = TRUE]
       \/ /\ ~Exists(fs, build_dir[p])
          /\ UNCHANGED <<fs, cur>>
    /\ pc' = [pc EXCEPT ![p] = "tempfile"]
    /\ UNCHANGED <<procs, network, version, calls_left, build_dir, prev, file,
                   res, total_size, downloaded, pb, read, wrote, result, tar,
                   rv, rp>>

\* Directory creation that fails when the directory is already there, so
\* that of two concurrent callers only the first goes on.
CreateDir_exclusive(p) ==
    /\ pc[p] = "create_dir"
    /\ IF Exists(fs, build_dir[p])
       THEN /\ Panic(p, "DirectoryCreationError")
            /\ UNCHANGED fs
       ELSE /\ fs' = create_dir_all(fs, build_dir[p])
            /\ cur' = [cur EXCEPT ![p].created = TRUE]
            /\ pc' = [pc EXCEPT ![p] = "tempfile"]
            /\ UNCHANGED <<file, res, total_size, downloaded, pb, read, wrote,
                           result, tar>>
    /\ UNCHANGED <<procs, network, version, calls_left, build_dir, prev, rv, rp>>

\* std::fs::create_dir_all(&build_dir).expect(..)
CreateDir(p) ==
    /\ pc[p] = "create_dir"
    /\ \/ /\ fs' = create_dir_all(fs, build_dir[p])
          /\ cur' = [cur EXCEPT ![p].created = TRUE]
          /\ pc' = [pc EXCEPT ![p] = "tempfile"]
          /\ UNCHANGED <<file, res, total_size, downloaded, pb, read, wrote,
                         result, tar>>
       \/ /\ ~Exists(fs, build_dir[p])
          /\ \E k \in 0..(Len(Components(build_dir[p])) - 1) :
                 fs' = CreateDirUpTo(fs, build_dir[p], k)
          /\ Panic(p, "DirectoryCreationError")
    /\ UNCHANGED <<procs, network, version, calls_left, build_dir, prev, rv, rp>>

\* tempfile::NamedTempFile::new().expect(..)
NewTempFile(p) ==
    /\ pc[p] = "tempfile"
    /\ \/ /\ file' = [file EXCEPT ![p] = 0]
          /\ cur' = [cur EXCEPT ![p].temps = @ + 1]
          /\ pc' = [pc EXCEPT ![p] = "client"]
          /\ UNCHANGED <<res, total_size, downloaded, pb, read, wrote,
                         result, tar>>
       \/ Panic(p, "TempFileError")
    /\ UNCHANGED <<procs, network, version, fs, calls_left, build_dir, prev, rv, rp>>

\* Client::builder().build().expect(..)
BuildClient(p) ==
    /\ pc[p] = "client"
    /\ \/ /\ pc' = [pc EXCEPT ![p] = "send"]
          /\ UNCHANGED <<cur, file, res, total_size, downloaded, pb, read,
                         wrote, result, tar>>
       \/ Panic(p, "ClientError")
    /\ UNCHANGED <<procs, network, version, fs, calls_left, build_dir, prev, rv, rp>>


(***************************************************************************)
(* async fn download_file                                                  *)
(***************************************************************************)
\* A missing length read as a length of zero.
ContentLength_or_zero(r) ==
    IF r.content_length = NoLength THEN 0 ELSE r.content_length

\* res.content_length(): the advertised length, NoLength for None.
ContentLength(r) == r.content_length

\* client.get(url).send().await.or(Err(..))?, then
\* res.content_length().ok_or(..)?: the request fails; or a response
\* arrives, of any status, with or without a length.
Send(p) ==
    /\ pc[p] = "send"
    /\ cur' = [cur EXCEPT ![p].reqs = @ + 1]
    /\ \E r \in {SendError} \cup
                {Response(st, len) : st \in Statuses,
                                     len \in {NoLength} \cup 0..MaxTotal} :
          /\ res' = [res EXCEPT ![p] = r]
          /\ IF r.sent = "error"
             THEN /\ result' = [result EXCEPT ![p] = "RequestFailed"]
                  /\ pc' = [pc EXCEPT ![p] = "expect"]
                  /\ UNCHANGED total_size
             ELSE IF ContentLength(r) = NoLength
             THEN /\ result' = [result EXCEPT ![p] = "MissingLength"]
                  /\ pc' = [pc EXCEPT ![p] = "expect"]
                  /\ UNCHANGED total_size
             ELSE /\ total_size' = [total_size EXCEPT ![p] = ContentLength(r)]
                  /\ pc' = [pc EXCEPT ![p] = "stream"]
                  /\ UNCHANGED result
    /\ UNCHANGED <<procs, network, version, fs, calls_left, build_dir, prev, file,
                   downloaded, pb, read, wrote, tar, rv, rp>>

\* The new position without the clamp.
NewPosition_unclamped(down, len, total) == down + len

\* min(downloaded + (chunk.len() as u64), total_size).  The sum stays below
\* 2^64: downloaded is at most the bytes already in the file and a chunk
\* holds at most isize::MAX bytes.
NewPosition(down, len, total) == Min(down + len, total)

\* The loop with the outcome of write_all not looked at: after a failed
\* write the position advances and the next chunk is requested.
StreamChunk_write_unchecked(p) ==
    /\ pc[p] = "stream"
    /\ Len(read[p]) < MaxChunks
    /\ \E n \in 0..MaxChunkLen :
          /\ read' = [read EXCEPT ![p] = Append(@, n)]
          /\ \/ /\ file' = [file EXCEPT ![p] = @ + n]
                /\ wrote' = [wrote EXCEPT ![p] = Append(@, n)]
             \/ \E k \in 0..(n - 1) :
                   /\ file' = [file EXCEPT ![p] = @ + k]
                   /\ UNCHANGED wrote
          /\ downloaded' = [downloaded EXCEPT ![p] =
                               NewPosition(@, n, total_size[p])]
          /\ pb' = [pb EXCEPT ![p] =
                       Append(@, NewPosition(downloaded[p], n, total_size[p]))]
    /\ UNCHANGED <<procs, network, version, fs, calls_left, build_dir, cur, prev, res,
                   total_size, tar, rv, rp, result, pc>>

\* The loop with the clamp applied to the data: of each chunk only the
\* bytes up to the advertised total are written.
StreamChunk_clamped(p) ==
    /\ pc[p] = "stream"
    /\ Len(read[p]) < MaxChunks
    /\ \E n \in 0..MaxChunkLen :
          /\ read' = [read EXCEPT ![p] = Append(@, n)]
          /\ file' = [file EXCEPT ![p] =
                         @ + (NewPosition(downloaded[p], n, total_size[p])
                              - downloaded[p])]
          /\ wrote' = [wrote EXCEPT ![p] = Append(@, n)]
          /\ downloaded' = [downloaded EXCEPT ![p] =
                               NewPosition(@, n, total_size[p])]
          /\ pb' = [pb EXCEPT ![p] =
                       Append(@, NewPosition(downloaded[p], n, total_size[p]))]
    /\ UNCHANGED <<procs, network, version, fs, calls_left, build_dir, cur, prev, res,
                   total_size, tar, rv, rp, result, pc>>

\* One turn of the loop: the stream yields a chunk of n bytes, which
\* write_all writes in full (then the position advances) or of which it
\* writes k < n bytes before failing.
StreamChunk(p) ==
    /\ pc[p] = "stream"
    /\ Len(read[p]) < MaxChunks
    /\ \E n \in 0..MaxChunkLen :
          /\ read' = [read EXCEPT ![p] = Append(@, n)]
          /\ \/ /\ file' = [file EXCEPT ![p] = @ + n]
                /\ wrote' = [wrote EXCEPT ![p] = Append(@, n)]
                /\ downloaded' = [downloaded EXCEPT ![p] =
                                     NewPosition(@, n, total_size[p])]
                /\ pb' = [pb EXCEPT ![p] =
                             Append(@, NewPosition(downloaded[p], n, total_size[p]))]
                /\ UNCHANGED <<result, pc>>
             \/ \E k \in 0..(n - 1) :
                   /\ file' = [file EXCEPT ![p] = @ + k]
                   /\ result' = [result EXCEPT ![p] = "StreamError"]
                   /\ pc' = [pc EXCEPT ![p] = "expect"]
                   /\ UNCHANGED <<wrote, downloaded, pb>>
    /\ UNCHANGED <<procs, network, version, fs, calls_left, build_dir, cur, prev, res,
                   total_size, tar, rv, rp>>

\* The stream yields an error.
StreamError(p) ==
    /\ pc[p] = "stream"
    /\ result' = [result EXCEPT ![p] = "StreamError"]
    /\ pc' = [pc EXCEPT ![p] = "expect"]
    /\ UNCHANGED <<procs, network, version, fs, calls_left, build_dir, cur, prev, file,
                   res, total_size, downloaded, pb, read, wrote, tar, rv, rp>>

\* The end of the stream with the received length checked against the
\* advertised one: a short body is an error.
StreamEnd_length_checked(p) ==
    /\ pc[p] = "stream"
    /\ IF downloaded[p] < total_size[p]
       THEN /\ result' = [result EXCEPT ![p] = "StreamError"]
            /\ UNCHANGED pb
       ELSE /\ result' = [result EXCEPT ![p] = "Ok"]
            /\ pb' = [pb EXCEPT ![p] = Append(@, total_size[p])]
    /\ pc' = [pc EXCEPT ![p] = "expect"]
    /\ UNCHANGED <<procs, network, version, fs, calls_left, build_dir, cur, prev, file,
                   res, total_size, downloaded, read, wrote, tar, rv, rp>>

\* The stream ends: pb.finish() moves the bar to its length, Ok(()).
StreamEnd(p) ==
    /\ pc[p] = "stream"
    /\ pb' = [pb EXCEPT ![p] = Append(@, total_size[p])]
    /\ result' = [result EXCEPT ![p] = "Ok"]
    /\ pc' = [pc EXCEPT ![p] = "expect"]
    /\ UNCHANGED <<procs, network, version, fs, calls_left, build_dir, cur, prev, file,
                   res, total_size, downloaded, read, wrote, tar, rv, rp>>

(***************************************************************************)
(* fn install_circuit_artifacts, after the download                        *)
(***************************************************************************)
\* A failed download that takes the install directory away again.
DownloadExpect_cleanup(p) ==
    /\ pc[p] = "expect"
    /\ IF result[p] = "Ok"
       THEN /\ pc' = [pc EXCEPT ![p] = "spawn"]
            /\ UNCHANGED <<cur, file, res, total_size, downloaded, pb, read,
                           wrote, result, tar, fs>>
       ELSE /\ Panic(p, result[p])
            /\ fs' = [d \in DOMAIN fs \ {Components(build_dir[p])} |-> fs[d]]
    /\ UNCHANGED <<procs, network, version, calls_left, build_dir, prev, rv, rp>>

\* The result of download_file not looked at.
DownloadExpect_unchecked(p) ==
    /\ pc[p] = "expect"
    /\ pc' = [pc EXCEPT ![p] = "spawn"]
    /\ UNCHANGED <<cur, file, res, total_size, downloaded, pb, read, wrote,
                   result, tar>>
    /\ UNCHANGED <<procs, network, version, fs, calls_left, build_dir, prev, rv, rp>>

\* block_on(download_file(..)).expect("failed to download file")
DownloadExpect(p) ==
    /\ pc[p] = "expect"
    /\ IF result[p] = "Ok"
       THEN /\ pc' = [pc EXCEPT ![p] = "spawn"]
            /\ UNCHANGED <<cur, file, res, total_size, downloaded, pb, read,
                           wrote, result, tar>>
       ELSE Panic(p, result[p])
    /\ UNCHANGED <<procs, network, version, fs, calls_left, build_dir, prev, rv, rp>>

\* Command::new("tar").args(..).spawn().expect("failed to extract tarball")
Spawn(p) ==
    /\ pc[p] = "spawn"
    /\ \/ /\ tar' = [tar EXCEPT ![p] = "running"]
          /\ cur' = [cur EXCEPT ![p].spawned = TRUE]
          /\ pc' = [pc EXCEPT ![p] = "wait"]
          /\ UNCHANGED <<file, res, total_size, downloaded, pb, read, wrote,
                         result>>
       \/ Panic(p, "ExtractionError")
    /\ UNCHANGED <<procs, network, version, fs, calls_left, build_dir, prev, rv, rp>>

\* The tar child writes an entry of the archive into build_dir.
TarExtract(p) ==
    /\ tar[p] = "running"
    /\ fs[Components(build_dir[p])] = "empty"
    /\ fs' = [fs EXCEPT ![Components(build_dir[p])] = "partial"]
    /\ UNCHANGED <<procs, network, version, pc, calls_left, build_dir, cur, prev, file,
                   res, total_size, downloaded, pb, read, wrote, result, tar,
                   rv, rp>>

\* The tar child exits: with status 0 once everything is extracted, or with
\* a non-zero status, leaving what it had written.
TarExit(p) ==
    /\ tar[p] = "running"
    /\ \/ /\ tar' = [tar EXCEPT ![p] = "exit0"]
          /\ cur' = [cur EXCEPT ![p].exit = 0]
          /\ fs' = [fs EXCEPT ![Components(build_dir[p])] = "full"]
       \/ /\ tar' = [tar EXCEPT ![p] = "exit1"]
          /\ cur' = [cur EXCEPT ![p].exit = 1]
          /\ UNCHANGED fs
    /\ UNCHANGED <<procs, network, version, pc, calls_left, build_dir, prev, file,
                   res, total_size, downloaded, pb, read, wrote, result,
                   rv, rp>>

\* res.wait().unwrap(), then the println! and the return to
\* try_install_circuit_artifacts, which returns build_dir.  The exit status
\* wait() returns is not looked at.
Wait(p) ==
    /\ pc[p] = "wait"
    /\ tar[p] \in {"exit0", "exit1"}
    /\ \/ /\ cur' = [cur EXCEPT ![p].outcome = "returned",
                                ![p].ret = build_dir[p],
                                ![p].notices = @ \cup {"downloaded"}]
          /\ pc' = [pc EXCEPT ![p] = "idle"]
          /\ file' = [file EXCEPT ![p] = NoFile]
          /\ res' = [res EXCEPT ![p] = NoResponse]
          /\ total_size' = [total_size EXCEPT ![p] = 0]
          /\ downloaded' = [downloaded EXCEPT ![p] = 0]
          /\ pb' = [pb EXCEPT ![p] = <<>>]
          /\ read' = [read EXCEPT ![p] = <<>>]
          /\ wrote' = [wrote EXCEPT ![p] = <<>>]
          /\ result' = [result EXCEPT ![p] = "none"]
          /\ tar' = [tar EXCEPT ![p] = "none"]
       \/ Panic(p, "ExtractionError")
    /\ UNCHANGED <<procs, network, version, fs, calls_left, build_dir, prev, rv, rp>>

Next ==
    \E p \in procs :
        \/ TryInstall(p)
        \/ CreateDir(p)
        \/ NewTempFile(p)
        \/ BuildClient(p)
        \/ Send(p)
        \/ StreamChunk(p)
        \/ StreamError(p)
        \/ StreamEnd(p)
        \/ DownloadExpect(p)
        \/ Spawn(p)
        \/ TarExtract(p)
        \/ TarExit(p)
        \/ Wait(p)

Spec == Init /\ [][Next]_vars


(***************************************************************************)
(* Two processes of a build with the network feature, each calling the      *)
(* installer once for the same version while its directory is absent.      *)
(***************************************************************************)
InitConc ==
    /\ InitInstall({1, 2}, 1)
    /\ network
    /\ version = [p \in {1, 2} |-> <<"v">>]
    /\ fs = HomeFs
    /\ rv = <<>>
    /\ rp = <<>>

\* Every step of the installer as in Next; the server keeps its answers
\* short: a body of at most ConcChunks chunks of at most ConcBytes bytes,
\* under an advertised length of at most ConcBytes.
NextConc ==
    \E p \in procs :
        \/ TryInstall(p)
        \/ CreateDir(p)
        \/ NewTempFile(p)
        \/ BuildClient(p)
        \/ Send(p) /\ res'[p].content_length <= ConcBytes
        \/ /\ StreamChunk(p)
           /\ Len(read'[p]) <= ConcChunks
           /\ read'[p][Len(read'[p])] <= ConcBytes
        \/ StreamError(p)
        \/ StreamEnd(p)
        \/ DownloadExpect(p)
        \/ Spawn(p)
        \/ TarExtract(p)
        \/ TarExit(p)
        \/ Wait(p)

SpecConc == InitConc /\ [][NextConc]_vars

(***************************************************************************)
(* The resolver on its own: two builds, each with a version string of its  *)
(* own, resolve their install directory with both functions.               *)
(***************************************************************************)
Unresolved == [circuit |-> NoPath, install |-> NoPath]

InitResolve ==
    /\ procs = {}
    /\ network = FALSE
    /\ version = <<>>
    /\ fs = HomeFs
    /\ pc = <<>>
    /\ calls_left = <<>>
    /\ build_dir = <<>>
    /\ cur = <<>>
    /\ prev = <<>>
    /\ file = <<>>
    /\ res = <<>>
    /\ total_size = <<>>
    /\ downloaded = <<>>
    /\ pb = <<>>
    /\ read = <<>>
    /\ wrote = <<>>
    /\ result = <<>>
    /\ tar = <<>>
    /\ rv \in [1..2 -> AllVersions]
    /\ rp = [i \in 1..2 |-> Unresolved]

ResolveCircuit(i) ==
    /\ rp[i].circuit = NoPath
    /\ rp' = [rp EXCEPT ![i].circuit = circuit_artifacts_dir(rv[i])]
    /\ UNCHANGED <<installVars, rv>>

ResolveInstall(i) ==
    /\ rp[i].install = NoPath
    /\ rp' = [rp EXCEPT ![i].install = install_circuit_artifacts_dir(rv[i])]
    /\ UNCHANGED <<installVars, rv>>

NextResolve ==
    \E i \in 1..2 :
        \/ ResolveCircuit(i)
        \/ ResolveInstall(i)

SpecResolve == InitResolve /\ [][NextResolve]_vars


(***************************************************************************)
(* Properties.                                                             *)
(***************************************************************************)
Ended(p) == pc[p] = "idle" /\ cur[p].outcome \notin {"none", "running"}

\* The ways a call fails in the download or in the extraction.
DownloadFailures == {"RequestFailed", "MissingLength", "StreamError"}
InstallFailures == DownloadFailures \cup {"ExtractionError"}

\* C1: a call that finds the install directory in place issues no network
\* request, creates no temporary file, starts no extraction, and returns
\* the resolved directory.
Thm_C1 ==
    \A p \in procs :
        cur[p].existed =>
            /\ cur[p].reqs = 0
            /\ cur[p].temps = 0
            /\ file[p] = NoFile
            /\ ~cur[p].spawned
            /\ tar[p] = "none"
            /\ cur[p].outcome = "returned"
            /\ PathEq(cur[p].ret, install_circuit_artifacts_dir(version[p]))

Witness_C1 ==
    \E p \in procs : cur[p].existed /\ cur[p].outcome = "returned"

\* C2 as stated: with the directory absent, two calls in sequence of which
\* the first succeeds make exactly one network request, in the first call,
\* and return the same path.
Orig_C2 ==
    \A p \in procs :
        (~prev[p].existed /\ prev[p].outcome = "returned" /\ Ended(p)) =>
            /\ prev[p].reqs = 1
            /\ cur[p].reqs = 0
            /\ cur[p].outcome = "returned"
            /\ PathEq(prev[p].ret, cur[p].ret)

\* C2 amended: the same, in a build that has the network feature.
Thm_C2 ==
    \A p \in procs :
        (network /\ ~prev[p].existed /\ prev[p].outcome = "returned"
                 /\ Ended(p)) =>
            /\ prev[p].reqs = 1
            /\ cur[p].reqs = 0
            /\ cur[p].outcome = "returned"
            /\ PathEq(prev[p].ret, cur[p].ret)
            /\ PathEq(cur[p].ret, install_circuit_artifacts_dir(version[p]))

Witness_C2 ==
    \E p \in procs :
        /\ network /\ ~prev[p].existed /\ prev[p].outcome = "returned"
        /\ prev[p].reqs = 1
        /\ Ended(p) /\ cur[p].reqs = 0

\* C3: when the download succeeds and the extractor exits with a non-zero
\* status, the call fails with ExtractionError: no completion notice, no
\* path returned.
Claim_C3 ==
    \A p \in procs :
        (Ended(p) /\ cur[p].exit = 1) =>
            /\ cur[p].outcome = "ExtractionError"
            /\ "downloaded" \notin cur[p].notices
            /\ cur[p].ret = NoPath

\* C4 as stated: the call after one that failed in download or extraction
\* issues a new network request instead of taking the fast path.
Orig_C4 ==
    \A p \in procs :
        (prev[p].outcome \in InstallFailures /\ Ended(p)) =>
            /\ cur[p].reqs >= 1
            /\ "exists" \notin cur[p].notices

\* C4 amended: the call after one that failed in download or extraction
\* (a panic, or an extractor that exited with a non-zero status) finds the
\* directory the failed call created, takes the fast path and issues no
\* network request.
Thm_C4 ==
    \A p \in procs :
        ((prev[p].outcome \in InstallFailures \/ prev[p].exit = 1)
             /\ cur[p].outcome # "none") =>
            /\ cur[p].existed
            /\ cur[p].reqs = 0
            /\ cur[p].temps = 0
            /\ ~cur[p].spawned
            /\ cur[p].outcome = "returned"
            /\ "exists" \in cur[p].notices

Witness_C4 ==
    \E p \in procs :
        /\ prev[p].outcome \in DownloadFailures
        /\ prev[p].reqs = 1
        /\ Ended(p) /\ cur[p].existed

\* C5: once a call has ended, on whatever path, the temporary file it
\* acquired no longer exists.
Thm_C5 ==
    \A p \in procs : pc[p] = "idle" => file[p] = NoFile

Witness_C5 ==
    \E p \in procs :
        /\ Ended(p) /\ cur[p].temps = 1
        /\ cur[p].outcome = "StreamError"

\* C6: the positions the progress bar is moved to never decrease and never
\* exceed the advertised total, whatever the chunks add up to.
Thm_C6 ==
    \A p \in procs :
        \A i \in 1..Len(pb[p]) :
            /\ pb[p][i] <= total_size[p]
            /\ i > 1 => pb[p][i - 1] <= pb[p][i]

Witness_C6 ==
    \E p \in procs :
        /\ Sum(wrote[p]) > total_size[p]
        /\ Len(pb[p]) >= 2
        /\ pb[p][1] < pb[p][2]

\* C7: a response without a content length makes download_file fail with
\* MissingLength: no chunk is read and nothing is written to the file.
Thm_C7 ==
    \A p \in procs :
        (res[p].sent = "ok" /\ res[p].content_length = NoLength) =>
            /\ pc[p] = "expect"
            /\ result[p] = "MissingLength"
            /\ read[p] = <<>>
            /\ file[p] = 0

Witness_C7 ==
    \E p \in procs : res[p].sent = "ok" /\ res[p].content_length = NoLength

\* A version that is one normal path component: not empty, no separator,
\* neither "." nor "..".
IsToken(v) ==
    /\ v # <<>>
    /\ \A i \in 1..Len(v) : v[i] # Sep
    /\ v # <<Dot>>
    /\ v # <<Dot, Dot>>

Resolved(i) == rp[i].circuit # NoPath /\ rp[i].install # NoPath

\* C8 as stated: the same version always resolves to the same path, and
\* any two distinct version strings resolve to different paths.
Orig_C8 ==
    \A i, j \in DOMAIN rp :
        (Resolved(i) /\ Resolved(j)) =>
            /\ rv[i] = rv[j] => PathEq(rp[i].circuit, rp[j].install)
            /\ rv[i] # rv[j] => ~PathEq(rp[i].circuit, rp[j].circuit)

\* C8 amended: the same version always resolves to the same path, and two
\* distinct versions that are each one normal path component resolve to
\* different paths.
Thm_C8 ==
    \A i, j \in DOMAIN rp :
        (Resolved(i) /\ Resolved(j)) =>
            /\ rv[i] = rv[j] => PathEq(rp[i].circuit, rp[j].install)
            /\ (rv[i] # rv[j] /\ IsToken(rv[i]) /\ IsToken(rv[j])) =>
                   /\ ~PathEq(rp[i].circuit, rp[j].circuit)
                   /\ ~PathEq(rp[i].install, rp[j].install)

Witness_C8 ==
    /\ DOMAIN rp = 1..2
    /\ Resolved(1) /\ Resolved(2)
    /\ rv[1] # rv[2] /\ IsToken(rv[1]) /\ IsToken(rv[2])

\* C9: download_file fails with RequestFailed, nothing written to the file,
\* when the connection fails and when the server answers with a status that
\* is not a success.
Claim_C9 ==
    \A p \in procs :
        (pc[p] = "expect" /\
         (res[p].sent = "error" \/
          (res[p].sent = "ok" /\ ~IsSuccess(res[p].status)))) =>
            /\ result[p] = "RequestFailed"
            /\ file[p] = 0

\* C10: no network request is issued and no temporary file acquired before
\* the call has created the install directory; a rejected creation ends the
\* call with DirectoryCreationError before any download.
Thm_C10 ==
    \A p \in procs :
        /\ (cur[p].reqs > 0 \/ cur[p].temps > 0 \/ file[p] # NoFile) =>
               /\ cur[p].created
               /\ Components(build_dir[p]) \in DOMAIN fs
        /\ cur[p].outcome = "DirectoryCreationError" =>
               /\ cur[p].reqs = 0
               /\ cur[p].temps = 0
               /\ ~cur[p].spawned
               /\ pc[p] = "idle"
        /\ (pc[p] = "create_dir" /\ cur[p].outcome = "running") =>
               /\ cur[p].reqs = 0
               /\ cur[p].temps = 0

Witness_C10 ==
    \E p \in procs :
        /\ Ended(p)
        /\ cur[p].outcome = "DirectoryCreationError"
        /\ ~cur[p].existed

\* C11: in a build without the network feature, a call that finds the
\* install directory absent returns the expected path and leaves the
\* filesystem as it was: no directory created, no network request, no
\* temporary file, no extraction.
Thm_C11 ==
    \A p \in procs :
        (~network /\ cur[p].outcome # "none" /\ ~cur[p].existed) =>
            /\ pc[p] = "idle"
            /\ cur[p].outcome = "returned"
            /\ PathEq(cur[p].ret, install_circuit_artifacts_dir(version[p]))
            /\ ~cur[p].created
            /\ ~Exists(fs, build_dir[p])
            /\ \E vs \in SUBSET Versions : fs = Installed(vs)
            /\ cur[p].reqs = 0
            /\ cur[p].temps = 0
            /\ file[p] = NoFile
            /\ ~cur[p].spawned
            /\ tar[p] = "none"
            /\ cur[p].notices = {}

Witness_C11 ==
    \E p \in procs :
        /\ ~network /\ ~cur[p].existed /\ ~prev[p].existed
        /\ prev[p].outcome = "returned" /\ cur[p].outcome = "returned"

\* s is an initial part of t.
IsPrefix(s, t) == Len(s) <= Len(t) /\ s = SubSeq(t, 1, Len(s))

\* C12 as stated: every chunk is written before the next is requested; a
\* failed read or a failed write ends download_file with StreamError at
\* once, and the file then holds exactly the chunks written before it.
Orig_C12 ==
    \A p \in procs :
        /\ pc[p] = "stream" => (read[p] = wrote[p] /\ file[p] = Sum(wrote[p]))
        /\ result[p] = "StreamError" =>
               /\ pc[p] = "expect"
               /\ IsPrefix(wrote[p], read[p])
               /\ Len(read[p]) <= Len(wrote[p]) + 1
               /\ file[p] = Sum(wrote[p])

\* C12 amended: the same, except that after a failed write the file holds
\* the chunks written in full followed by the part of the failing chunk
\* that write_all had written, a proper prefix of it.
Thm_C12 ==
    \A p \in procs :
        /\ pc[p] = "stream" => (read[p] = wrote[p] /\ file[p] = Sum(wrote[p]))
        /\ result[p] = "StreamError" =>
               /\ pc[p] = "expect"
               /\ IsPrefix(wrote[p], read[p])
               /\ Len(read[p]) <= Len(wrote[p]) + 1
               /\ read[p] = wrote[p] => file[p] = Sum(wrote[p])
               /\ read[p] # wrote[p] =>
                      /\ Sum(wrote[p]) <= file[p]
                      /\ file[p] < Sum(read[p])

Witness_C12 ==
    \E p \in procs :
        /\ result[p] = "StreamError"
        /\ Len(wrote[p]) >= 1
        /\ Len(read[p]) = Len(wrote[p]) + 1
        /\ file[p] > Sum(wrote[p])

\* C13: the extractor is started only after download_file has returned
\* Ok; a call whose download failed never starts it, and its install
\* directory holds nothing extracted.
Thm_C13 ==
    \A p \in procs :
        /\ (pc[p] \in {"spawn", "wait"} \/ tar[p] # "none") => result[p] = "Ok"
        /\ cur[p].spawned => cur[p].outcome \notin DownloadFailures
        /\ cur[p].outcome \in DownloadFailures =>
               /\ cur[p].reqs = 1
               /\ ~cur[p].spawned
               /\ cur[p].exit = -1
               /\ Exists(fs, build_dir[p])
               /\ fs[Components(build_dir[p])] = "empty"

Witness_C13 ==
    \E p \in procs :
        /\ Ended(p)
        /\ cur[p].outcome = "StreamError"
        /\ fs[Components(build_dir[p])] = "empty"

\* C14: the install directory a call has created is still there at every
\* later step of the call and after it, also when the call fails in the
\* download or in the extraction.
Thm_C14 ==
    \A p \in procs :
        cur[p].created =>
            /\ Components(build_dir[p]) \in DOMAIN fs
            /\ \A k \in 1..Len(Components(build_dir[p])) :
                   Prefix(build_dir[p], k) \in DOMAIN fs

Witness_C14 ==
    \E p \in procs :
        /\ Ended(p)
        /\ cur[p].created
        /\ cur[p].outcome \in InstallFailures
        /\ Components(build_dir[p]) \in DOMAIN fs

\* C15: a call that finds the install directory in place but not fully
\* extracted (created and still empty, or partly extracted, by a failed or
\* a running installation) treats it as installed: it ends at once with the
\* path, the "exists" notice, no request, no temporary file, no extraction,
\* and the filesystem untouched.
Thm_C15 ==
    [][\A p \in procs :
          (/\ calls_left'[p] < calls_left[p]
           /\ Components(circuit_artifacts_dir(version[p])) \in DOMAIN fs
           /\ fs[Components(circuit_artifacts_dir(version[p]))] # "full") =>
              /\ pc'[p] = "idle"
              /\ cur'[p].existed
              /\ cur'[p].outcome = "returned"
              /\ PathEq(cur'[p].ret, install_circuit_artifacts_dir(version[p]))
              /\ cur'[p].notices = {"exists"}
              /\ cur'[p].reqs = 0
              /\ cur'[p].temps = 0
              /\ ~cur'[p].spawned
              /\ file'[p] = NoFile
              /\ tar'[p] = "none"
              /\ fs' = fs]_vars

Witness_C15 ==
    \E p, q \in procs :
        /\ p # q
        /\ cur[p].existed /\ Ended(p)
        /\ pc[q] = "wait" /\ tar[q] = "running"
        /\ Components(build_dir[p]) = Components(build_dir[q])
        /\ fs[Components(build_dir[p])] = "partial"

\* C16: nothing keeps two processes apart.  A process that has passed the
\* existence check can always create the directory (whether or not the
\* other has created it meanwhile), send its request and start its
\* extractor; and two extractors running for the same version write into
\* the same directory.
Thm_C16 ==
    /\ \A p \in procs :
          /\ pc[p] = "create_dir" =>
                 ENABLED (CreateDir(p) /\ pc'[p] = "tempfile")
          /\ pc[p] = "send" => ENABLED Send(p)
          /\ pc[p] = "spawn" => ENABLED (Spawn(p) /\ tar'[p] = "running")
    /\ \A p, q \in procs :
          (tar[p] = "running" /\ tar[q] = "running"
               /\ version[p] = version[q]) =>
              Components(build_dir[p]) = Components(build_dir[q])

Witness_C16 ==
    /\ procs = {1, 2}
    /\ \A p \in procs :
          /\ ~cur[p].existed
          /\ cur[p].reqs = 1
          /\ pc[p] = "wait"
          /\ tar[p] = "running"
    /\ Components(build_dir[1]) = Components(build_dir[2])
    /\ fs[Components(build_dir[1])] = "partial"

\* The body received so far is shorter than the advertised length.
Undershoot(p) == Sum(read[p]) < total_size[p]

\* C17 as stated: download_file returns Ok whenever the stream ends without
\* an error, also after fewer bytes than advertised; the final position of
\* the progress bar is then below the total, and the extraction goes ahead.
Orig_C17 ==
    \A p \in procs :
        /\ pc[p] = "stream" => ENABLED (StreamEnd(p) /\ result'[p] = "Ok")
        /\ (result[p] = "Ok" /\ Undershoot(p)) =>
               /\ file[p] = Sum(read[p])
               /\ pb[p][Len(pb[p])] < total_size[p]
        /\ (pc[p] = "expect" /\ result[p] = "Ok") =>
               ENABLED (DownloadExpect(p) /\ pc'[p] = "spawn")

\* C17 amended: the same, except that it is the running total, the last
\* position given to set_position, that stays below the total; pb.finish()
\* then moves the bar to the total.
Thm_C17 ==
    \A p \in procs :
        /\ pc[p] = "stream" => ENABLED (StreamEnd(p) /\ result'[p] = "Ok")
        /\ (result[p] = "Ok" /\ Undershoot(p)) =>
               /\ file[p] = Sum(read[p])
               /\ downloaded[p] = Sum(read[p])
               /\ downloaded[p] < total_size[p]
               /\ Len(pb[p]) = Len(read[p]) + 1
               /\ \A i \in 1..Len(read[p]) : pb[p][i] < total_size[p]
               /\ pb[p][Len(pb[p])] = total_size[p]
        /\ (pc[p] = "expect" /\ result[p] = "Ok") =>
               ENABLED (DownloadExpect(p) /\ pc'[p] = "spawn")

Witness_C17 ==
    \E p \in procs :
        /\ pc[p] = "wait" /\ tar[p] = "running"
        /\ result[p] = "Ok"
        /\ Len(read[p]) >= 1
        /\ Undershoot(p)
        /\ file[p] < total_size[p]

\* C18: the clamp touches the reported position only.  After a successful
\* download the file holds every chunk received: its length is the sum of
\* the chunk lengths, also when that exceeds the advertised total.
Thm_C18 ==
    \A p \in procs :
        /\ pc[p] = "stream" => file[p] = Sum(read[p])
        /\ result[p] = "Ok" =>
               /\ wrote[p] = read[p]
               /\ file[p] = Sum(read[p])
               /\ downloaded[p] = Min(Sum(read[p]), total_size[p])
               /\ Sum(read[p]) > total_size[p] =>
                      (file[p] > total_size[p] /\ downloaded[p] = total_size[p])

Witness_C18 ==
    \E p \in procs :
        /\ result[p] = "Ok"
        /\ Sum(read[p]) > total_size[p]
        /\ total_size[p] > 0
        /\ file[p] > downloaded[p]

====
